---- MODULE Spec2Model ----
(***************************************************************************)
(* Railway section traffic engine: conflict detection, conflict           *)
(* resolution suggestions, greedy schedule optimisation and what-if        *)
(* analysis (src/conflict_detector.py, src/optimizer.py, src/models.py),   *)
(* driven by the application state of src/app.py.                          *)
(*                                                                         *)
(* Times are integers: minutes since an arbitrary base time.  Every time   *)
(* the program handles is a whole number of minutes (datetimes parsed with *)
(* minute resolution, integer delays and integer section times).           *)
(*                                                                         *)
(* Python objects that can be aliased or mutated (Train objects and the    *)
(* lists holding them) live in a heap: a train is referred to by its index *)
(* in heap.objs, a list by its index in heap.lists.                         *)
(***************************************************************************)
EXTENDS Integers, Sequences, FiniteSets, TLC

VARIABLES
    sections,        \* app.py current_controller.sections: Seq(TrackSection)
    current_trains,  \* app.py current_trains: Seq(Train), the caller's trains
    op,              \* the engine operation called last
    args,            \* the arguments of that call, the trains as they were before it
    heap,            \* the heap when that call returned
    ret              \* what that call returned

vars == <<sections, current_trains, op, args, heap, ret>>

----------------------------------------------------------------------------
(* Bounds of the model and the values inputs are drawn from.               *)

\* the longest train list of the fleet specification
MaxTrains == 3

\* the longest train list of the engine specification
MaxCallTrains == 2

SectionIds == {"S1", "S2"}

\* the sections of every specification but the severity one: S1 as
\* SEC_003 (a junction for one train), S2 as SEC_001 (a platform for two)
SampleSections ==
    <<[section_id |-> "S1", section_type |-> "JUNCTION", capacity |-> 1],
      [section_id |-> "S2", section_type |-> "PLATFORM", capacity |-> 2]>>

\* fleet specification: (priority, route, scheduled arrival, delay, section times)
FleetChoices ==
    {1, 4} \X {<<"S1">>, <<"S2", "S1">>, <<"S1", "S1">>} \X {0, 5} \X {0} \X {<<>>}

\* pair specification: two trains, every combination of
\* priority, route, arrival, delay and section times
PairChoices ==
    {1, 2, 4} \X {<<"S1">>, <<"S2", "S1">>, <<"S1", "S1">>} \X {0, 10} \X {0, 5}
    \X {<<>>, [s \in {"S1"} |-> 20]}

\* occupancies on both sides of the 30 and 60 minute thresholds of severity
OccupancyMinutes == {10, 30, 31, 60, 61}

\* severity specification: two trains in one section, every priority, and
\* occupancies on both sides of the 30 and 60 minute thresholds
SeverityChoices ==
    (1..5) \X {<<"S1">>} \X {0} \X {0}
    \X {[s \in {"S1"} |-> d] : d \in OccupancyMinutes}

SectionTypes == {"SINGLE_LINE", "DOUBLE_LINE", "JUNCTION", "PLATFORM"}

----------------------------------------------------------------------------
(* Generic helpers.                                                        *)

Max(a, b) == IF a >= b THEN a ELSE b

Min(a, b) == IF a <= b THEN a ELSE b

Range(s) == {s[i] : i \in 1..Len(s)}

\* list membership test of Python: x in s
Contains(s, x) == \E i \in 1..Len(s) : s[i] = x

SetMax(S) == CHOOSE x \in S : \A y \in S : y <= x

SetMin(S) == CHOOSE x \in S : \A y \in S : x <= y

RECURSIVE SumSeq(_)
SumSeq(s) == IF s = <<>> THEN 0 ELSE Head(s) + SumSeq(Tail(s))

----------------------------------------------------------------------------
(* Domain model (src/models.py).                                           *)

DefaultSectionTime == 10

\* Train.__post_init__: an empty estimated_section_times becomes 10 minutes
\* for every section of the route
Train__post_init__(t) ==
    IF DOMAIN t.estimated_section_times = {}
    THEN [t EXCEPT !.estimated_section_times =
              [s \in Range(t.route) |-> DefaultSectionTime]]
    ELSE t

\* the dataclass constructor of Train
Train(id, priority, route, arrival, departure, delay, times) ==
    Train__post_init__(
        [train_id |-> id,
         train_number |-> id,
         priority |-> priority,
         route |-> route,
         scheduled_arrival |-> arrival,
         scheduled_departure |-> departure,
         current_delay_minutes |-> delay,
         estimated_section_times |-> times])

\* the dataclass constructor of TrackSection
TrackSection(id, type, capacity) ==
    [section_id |-> id, section_type |-> type, capacity |-> capacity]

get_actual_arrival(t) == t.scheduled_arrival + t.current_delay_minutes

get_actual_departure(t) == t.scheduled_departure + t.current_delay_minutes

\* train.estimated_section_times.get(section_id, 10)
section_time(t, sid) ==
    IF sid \in DOMAIN t.estimated_section_times
    THEN t.estimated_section_times[sid]
    ELSE DefaultSectionTime

\* Conflict.duration_minutes
duration_minutes(c) == c.conflict_end_time - c.conflict_start_time

----------------------------------------------------------------------------
(* The heap.                                                               *)

EmptyHeap == [objs |-> <<>>, lists |-> <<>>]

\* the heap of a call: the caller's trains are objects 1..n and the
\* caller's list is list 1
Load(trains) ==
    [objs |-> trains, lists |-> <<[i \in 1..Len(trains) |-> i]>>]

\* copy.deepcopy of a list of trains: a new object per element and a new
\* list holding them; returns the heap and the reference of the new list
deepcopy_list(h, l) ==
    LET n == Len(h.objs)
        src == h.lists[l]
        h2 == [objs |-> h.objs \o [i \in 1..Len(src) |-> h.objs[src[i]]],
               lists |-> Append(h.lists, [i \in 1..Len(src) |-> n + i])]
    IN  [heap |-> h2, ref |-> Len(h2.lists)]

\* copy.deepcopy of one train
deepcopy_train(h, r) ==
    [heap |-> [h EXCEPT !.objs = Append(h.objs, h.objs[r])],
     ref |-> Len(h.objs) + 1]

----------------------------------------------------------------------------
(* Conflict detector (src/conflict_detector.py).                           *)

safety_margin_minutes == 5

\* the occupancy tuples (train, start, end) one train appends while its
\* route is walked from current_time on, each tagged with its section
RECURSIVE WalkRoute(_, _, _, _)
WalkRoute(h, r, k, current_time) ==
    IF k > Len(h.objs[r].route) THEN <<>>
    ELSE LET section_id == h.objs[r].route[k]
             end_time == current_time + section_time(h.objs[r], section_id)
         IN  <<[train |-> r, section_id |-> section_id,
                start |-> current_time, end |-> end_time]>>
             \o WalkRoute(h, r, k + 1, end_time)

\* all occupancy tuples in the order they are appended: trains in list
\* order, each along its route
RECURSIVE WalkTrains(_, _, _)
WalkTrains(h, trains, i) ==
    IF i > Len(trains) THEN <<>>
    ELSE WalkRoute(h, trains[i], 1, get_actual_arrival(h.objs[trains[i]]))
         \o WalkTrains(h, trains, i + 1)

\* the keys of a dict in insertion order: each value at its first occurrence
RECURSIVE FirstOccurrences(_)
FirstOccurrences(s) ==
    IF s = <<>> THEN <<>>
    ELSE LET front == FirstOccurrences(SubSeq(s, 1, Len(s) - 1))
             x == s[Len(s)]
         IN  IF Contains(front, x) THEN front ELSE Append(front, x)

\* list.sort(key=lambda x: x[1]): stable, ascending start time
RECURSIVE SortByStart(_)
SortByStart(s) ==
    IF Len(s) <= 1 THEN s
    ELSE LET front == SortByStart(SubSeq(s, 1, Len(s) - 1))
             x == s[Len(s)]
             k == Cardinality({i \in 1..Len(front) : front[i].start <= x.start})
         IN  SubSeq(front, 1, k) \o <<x>> \o SubSeq(front, k + 1, Len(front))

\* _generate_section_schedules: section ids in insertion order, and for each
\* the occupancy tuples sorted by start time
_generate_section_schedules(h, trains) ==
    LET all == WalkTrains(h, trains, 1)
        keys == FirstOccurrences([i \in 1..Len(all) |-> all[i].section_id])
    IN  [keys |-> keys,
         times |-> [sid \in Range(keys) |->
                      SortByStart(SelectSeq(all, LAMBDA e : e.section_id = sid))]]

\* _calculate_conflict_severity without the clamp to 5
_calculate_conflict_severity_unclamped(train1, train2, conflict_start, conflict_end, section) ==
    LET min_priority == Min(train1.priority, train2.priority)
        conflict_duration == conflict_end - conflict_start
    IN  2 + (IF min_priority = 1 THEN 2 ELSE IF min_priority = 2 THEN 1 ELSE 0)
          + (IF conflict_duration > 30 THEN 1 ELSE 0)
          + (IF conflict_duration > 60 THEN 1 ELSE 0)
          + (IF section.section_type \in {"JUNCTION", "SINGLE_LINE"} THEN 1 ELSE 0)

\* _calculate_conflict_severity with the first threshold at 30 minutes included
_calculate_conflict_severity_from_30(train1, train2, conflict_start, conflict_end, section) ==
    LET min_priority == Min(train1.priority, train2.priority)
        conflict_duration == conflict_end - conflict_start
        sum == 2 + (IF min_priority = 1 THEN 2 ELSE IF min_priority = 2 THEN 1 ELSE 0)
                 + (IF conflict_duration >= 30 THEN 1 ELSE 0)
                 + (IF conflict_duration > 60 THEN 1 ELSE 0)
                 + (IF section.section_type \in {"JUNCTION", "SINGLE_LINE"} THEN 1 ELSE 0)
    IN  IF sum > 5 THEN 5 ELSE sum

_calculate_conflict_severity(train1, train2, conflict_start, conflict_end, section) ==
    LET min_priority == Min(train1.priority, train2.priority)
        s1 == 2 + (IF min_priority = 1 THEN 2
                   ELSE IF min_priority = 2 THEN 1 ELSE 0)
        conflict_duration == conflict_end - conflict_start
        s2 == s1 + (IF conflict_duration > 30 THEN 1 ELSE 0)
        s3 == s2 + (IF conflict_duration > 60 THEN 1 ELSE 0)
        s4 == s3 + (IF section.section_type \in {"JUNCTION", "SINGLE_LINE"}
                    THEN 1 ELSE 0)
    IN  Min(s4, 5)

NoConflict == [conflict_id |-> <<>>]

\* _create_conflict with the safety margin widening the window
_create_conflict_margined(h, e1, e2, section, uuid) ==
    LET conflict_start == Max(e1.start, e2.start)
        conflict_end == Min(e1.end, e2.end) + safety_margin_minutes
    IN  IF conflict_start >= conflict_end THEN [conflict_id |-> <<>>]
        ELSE [conflict_id |-> uuid,
              train1 |-> e1.train,
              train2 |-> e2.train,
              section_id |-> section.section_id,
              conflict_start_time |-> conflict_start,
              conflict_end_time |-> conflict_end,
              severity |-> _calculate_conflict_severity(
                               h.objs[e1.train], h.objs[e2.train],
                               conflict_start, conflict_end, section),
              resolution |-> "None"]

\* _create_conflict; uuid stands for the value uuid.uuid4() returns, a
\* token no other call returns
_create_conflict(h, e1, e2, section, uuid) ==
    LET conflict_start == Max(e1.start, e2.start)
        conflict_end == Min(e1.end, e2.end)
    IN  IF conflict_start >= conflict_end THEN NoConflict
        ELSE [conflict_id |-> uuid,
              train1 |-> e1.train,
              train2 |-> e2.train,
              section_id |-> section.section_id,
              conflict_start_time |-> conflict_start,
              conflict_end_time |-> conflict_end,
              severity |-> _calculate_conflict_severity(
                               h.objs[e1.train], h.objs[e2.train],
                               conflict_start, conflict_end, section),
              resolution |-> "None"]

\* _conflict_exists comparing the trains in one order only
_conflict_exists_same_order(h, conflicts, new_conflict) ==
    \E k \in 1..Len(conflicts) :
        /\ h.objs[conflicts[k].train1].train_id = h.objs[new_conflict.train1].train_id
        /\ h.objs[conflicts[k].train2].train_id = h.objs[new_conflict.train2].train_id
        /\ conflicts[k].section_id = new_conflict.section_id

_conflict_exists(h, conflicts, new_conflict) ==
    \E k \in 1..Len(conflicts) :
        LET conflict == conflicts[k]
            id(r) == h.objs[r].train_id
        IN  /\ \/ /\ id(conflict.train1) = id(new_conflict.train1)
                  /\ id(conflict.train2) = id(new_conflict.train2)
               \/ /\ id(conflict.train1) = id(new_conflict.train2)
                  /\ id(conflict.train2) = id(new_conflict.train1)
            /\ conflict.section_id = new_conflict.section_id

\* the overlap test of _detect_section_conflicts (with safety margin)
DetectorOverlap(e1, e2) ==
    LET overlap_start == Max(e1.start, e2.start)
        overlap_end == Min(e1.end + safety_margin_minutes,
                           e2.end + safety_margin_minutes)
    IN  overlap_start < overlap_end

\* the indices j of the entries appended to overlapping_trains for entry i
OverlappingIndices(train_times, i) ==
    SelectSeq([j \in 1..Len(train_times) |-> j],
              LAMBDA j : j # i /\ DetectorOverlap(train_times[i], train_times[j]))

\* CapacityExceeded with a strict comparison
CapacityExceeded_strictly(overlapping_trains, section) ==
    Len(overlapping_trains) > section.capacity

\* CapacityExceeded counting the entry itself among the overlapping ones
CapacityExceeded_with_itself(overlapping_trains, section) ==
    Len(overlapping_trains) + 1 >= section.capacity

\* the capacity test that guards the creation of conflicts for one entry
CapacityExceeded(overlapping_trains, section) ==
    Len(overlapping_trains) >= section.capacity

\* the inner loop over overlapping_trains, from its k-th element on
RECURSIVE AppendConflicts(_, _, _, _, _, _, _)
AppendConflicts(h, train_times, section, i, overlapping, k, conflicts) ==
    IF k > Len(overlapping) THEN conflicts
    ELSE LET j == overlapping[k]
             conflict == _create_conflict(h, train_times[i], train_times[j],
                                          section, <<section.section_id, i, j>>)
             next == IF conflict # NoConflict
                        /\ ~_conflict_exists(h, conflicts, conflict)
                     THEN Append(conflicts, conflict)
                     ELSE conflicts
         IN  AppendConflicts(h, train_times, section, i, overlapping, k + 1, next)

\* the outer loop of _detect_section_conflicts, from entry i on
RECURSIVE DetectFrom(_, _, _, _, _)
DetectFrom(h, train_times, section, i, conflicts) ==
    IF i > Len(train_times) THEN conflicts
    ELSE LET overlapping == OverlappingIndices(train_times, i)
             next == IF CapacityExceeded(overlapping, section)
                     THEN AppendConflicts(h, train_times, section, i,
                                          overlapping, 1, conflicts)
                     ELSE conflicts
         IN  DetectFrom(h, train_times, section, i + 1, next)

_detect_section_conflicts(h, train_times, section) ==
    DetectFrom(h, train_times, section, 1, <<>>)

\* section_dict = {section.section_id: section for section in sections}
section_dict(secs) ==
    [sid \in {secs[i].section_id : i \in 1..Len(secs)} |->
        secs[CHOOSE i \in 1..Len(secs) :
                /\ secs[i].section_id = sid
                /\ \A j \in (i + 1)..Len(secs) : secs[j].section_id # sid]]

RECURSIVE ExtendConflicts(_, _, _, _)
ExtendConflicts(h, schedules, dict, k) ==
    IF k > Len(schedules.keys) THEN <<>>
    ELSE _detect_section_conflicts(h, schedules.times[schedules.keys[k]],
                                   dict[schedules.keys[k]])
         \o ExtendConflicts(h, schedules, dict, k + 1)

\* detect_conflicts passing over the sections that section_dict does not hold
detect_conflicts_skipping(h, trains, secs) ==
    LET dict == section_dict(secs)
        schedules == _generate_section_schedules(h, trains)
        known == [keys |-> SelectSeq(schedules.keys, LAMBDA sid : sid \in DOMAIN dict),
                  times |-> schedules.times]
    IN  [error |-> "none", conflicts |-> ExtendConflicts(h, known, dict, 1)]

\* detect_conflicts(trains, sections): the conflicts, or the KeyError raised
\* by section_dict[section_id] for a route section that is no section
detect_conflicts(h, trains, secs) ==
    LET dict == section_dict(secs)
        schedules == _generate_section_schedules(h, trains)
    IN  IF \E k \in 1..Len(schedules.keys) : schedules.keys[k] \notin DOMAIN dict
        THEN [error |-> "KeyError", conflicts |-> <<>>]
        ELSE [error |-> "none",
              conflicts |-> ExtendConflicts(h, schedules, dict, 1)]

----------------------------------------------------------------------------
(* Schedule optimizer (src/optimizer.py).                                  *)

\* the sort key of optimize_schedule: (priority.value, actual arrival)
SortKeyLeq(a, b) ==
    \/ a.priority < b.priority
    \/ a.priority = b.priority /\ get_actual_arrival(a) <= get_actual_arrival(b)

\* working_trains.sort(key=...): stable, on a list of train references
RECURSIVE SortTrains(_, _)
SortTrains(h, s) ==
    IF Len(s) <= 1 THEN s
    ELSE LET front == SortTrains(h, SubSeq(s, 1, Len(s) - 1))
             x == s[Len(s)]
             k == Cardinality({i \in 1..Len(front) :
                                  SortKeyLeq(h.objs[front[i]], h.objs[x])})
         IN  SubSeq(front, 1, k) \o <<x>> \o SubSeq(front, k + 1, Len(front))

_sections_overlap(start1, end1, start2, end2, safety_margin, section) ==
    IF section.capacity = 1
    THEN ~(end1 + safety_margin <= start2 \/ end2 + safety_margin <= start1)
    ELSE ~(end1 <= start2 \/ end2 <= start1)

\* minutes the scheduled train needs to reach the first occurrence of
\* section_id in its route
RECURSIVE time_to_section(_, _, _)
time_to_section(t, section_id, k) ==
    IF k > Len(t.route) \/ t.route[k] = section_id THEN 0
    ELSE section_time(t, t.route[k]) + time_to_section(t, section_id, k + 1)

\* delay_needed without the safety margin
delay_needed_without_margin(scheduled_section_end, planned_start) ==
    scheduled_section_end - planned_start

\* the delay one scheduled train asks of the train being placed
delay_needed(scheduled_section_end, planned_start) ==
    scheduled_section_end + safety_margin_minutes - planned_start

\* the loop of _calculate_required_delay over scheduled_trains, from k on
RECURSIVE RequiredDelayFrom(_, _, _, _, _, _, _, _, _)
RequiredDelayFrom(h, train, section_id, planned_start, planned_end, scheduled_trains, section, k, max_delay_needed) ==
    IF k > Len(scheduled_trains) THEN max_delay_needed
    ELSE LET scheduled_train == h.objs[scheduled_trains[k]]
             scheduled_section_start ==
                 get_actual_arrival(scheduled_train)
                 + time_to_section(scheduled_train, section_id, 1)
             scheduled_section_end ==
                 scheduled_section_start + section_time(scheduled_train, section_id)
             next ==
                 IF /\ Contains(scheduled_train.route, section_id)
                    /\ _sections_overlap(planned_start, planned_end,
                                         scheduled_section_start, scheduled_section_end,
                                         safety_margin_minutes, section)
                    /\ train.priority > scheduled_train.priority
                 THEN Max(max_delay_needed,
                          delay_needed(scheduled_section_end, planned_start))
                 ELSE max_delay_needed
         IN  RequiredDelayFrom(h, train, section_id, planned_start, planned_end,
                               scheduled_trains, section, k + 1, next)

_calculate_required_delay(h, train, section_id, planned_start, planned_end, scheduled_trains, section) ==
    Max(0, RequiredDelayFrom(h, train, section_id, planned_start, planned_end,
                             scheduled_trains, section, 1, 0))

\* section_start_time of _optimize_single_train
section_start_time(current_arrival, total_delay_added) ==
    current_arrival + total_delay_added

\* the loop of _optimize_single_train over train.route, from position k on;
\* yields total_delay_added, or -1 when sections[section_id] raises KeyError
RECURSIVE RouteDelayFrom(_, _, _, _, _, _, _)
RouteDelayFrom(h, train, scheduled_trains, dict, k, current_arrival, total_delay_added) ==
    IF k > Len(train.route) THEN total_delay_added
    ELSE IF train.route[k] \notin DOMAIN dict THEN -1
    ELSE LET section_id == train.route[k]
             start == section_start_time(current_arrival, total_delay_added)
             end == start + section_time(train, section_id)
             required_delay ==
                 _calculate_required_delay(h, train, section_id, start, end,
                                           scheduled_trains, dict[section_id])
         IN  IF required_delay > 0
             THEN RouteDelayFrom(h, train, scheduled_trains, dict, k + 1,
                                 get_actual_arrival(train)
                                     + (total_delay_added + required_delay),
                                 total_delay_added + required_delay)
             ELSE RouteDelayFrom(h, train, scheduled_trains, dict, k + 1,
                                 current_arrival, total_delay_added)

\* the same loop, yielding for every route position the window handed to
\* _calculate_required_delay and the delay added before it
RECURSIVE PlannedWindowsFrom(_, _, _, _, _, _, _)
PlannedWindowsFrom(h, train, scheduled_trains, dict, k, current_arrival, total_delay_added) ==
    IF k > Len(train.route) \/ train.route[k] \notin DOMAIN dict THEN <<>>
    ELSE LET section_id == train.route[k]
             start == section_start_time(current_arrival, total_delay_added)
             end == start + section_time(train, section_id)
             required_delay ==
                 _calculate_required_delay(h, train, section_id, start, end,
                                           scheduled_trains, dict[section_id])
             total == IF required_delay > 0
                      THEN total_delay_added + required_delay
                      ELSE total_delay_added
             arrival == IF required_delay > 0
                        THEN get_actual_arrival(train) + total
                        ELSE current_arrival
         IN  <<[section_start_time |-> start,
                section_end_time |-> end,
                required_delay |-> required_delay,
                total_delay_added |-> total_delay_added]>>
             \o PlannedWindowsFrom(h, train, scheduled_trains, dict, k + 1,
                                   arrival, total)

\* applied_delay with the sign of the added delay slipped
applied_delay_subtracted(train, total_delay_added) ==
    train.current_delay_minutes - total_delay_added

\* the delay written to the copy of the train
applied_delay(train, total_delay_added) ==
    train.current_delay_minutes + total_delay_added

\* _optimize_single_train: the heap with the optimized copy, and its reference
_optimize_single_train(h, r, scheduled_trains, dict) ==
    LET copy == deepcopy_train(h, r)
        train == h.objs[r]
        total_delay_added ==
            RouteDelayFrom(h, train, scheduled_trains, dict, 1,
                           get_actual_arrival(train), 0)
    IN  IF total_delay_added < 0
        THEN [error |-> "KeyError", heap |-> copy.heap, ref |-> copy.ref]
        ELSE IF total_delay_added > 0
        THEN [error |-> "none",
              heap |-> [copy.heap EXCEPT !.objs[copy.ref].current_delay_minutes =
                            applied_delay(train, total_delay_added)],
              ref |-> copy.ref]
        ELSE [error |-> "none", heap |-> copy.heap, ref |-> copy.ref]

\* the loop of _apply_greedy_optimization, from position i on
RECURSIVE GreedyFrom(_, _, _, _, _)
GreedyFrom(h, trains, dict, i, optimized_trains) ==
    IF i > Len(trains)
    THEN [error |-> "none", heap |-> h, optimized_trains |-> optimized_trains]
    ELSE IF i = 1
    THEN GreedyFrom(h, trains, dict, 2, Append(optimized_trains, trains[1]))
    ELSE LET one == _optimize_single_train(h, trains[i], optimized_trains, dict)
         IN  IF one.error # "none"
             THEN [error |-> one.error, heap |-> one.heap,
                   optimized_trains |-> optimized_trains]
             ELSE GreedyFrom(one.heap, trains, dict, i + 1,
                             Append(optimized_trains, one.ref))

_apply_greedy_optimization(h, trains, secs) ==
    GreedyFrom(h, trains, section_dict(secs), 1, <<>>)

\* Schedule.add_train_slot: the slot appended for one occupancy
add_train_slot(h, e) ==
    [train_id |-> h.objs[e.train].train_id,
     train_number |-> h.objs[e.train].train_number,
     priority |-> h.objs[e.train].priority,
     start_time |-> e.start,
     end_time |-> e.end]

\* get_occupancy_at_time with the comparison against the end reversed
get_occupancy_at_time_end_reversed(schedule, check_time) ==
    LET hit == SelectSeq(schedule.train_slots,
                         LAMBDA slot : slot.start_time <= check_time
                                       /\ slot.end_time <= check_time)
    IN  [i \in 1..Len(hit) |-> hit[i].train_id]

\* Schedule.get_occupancy_at_time
get_occupancy_at_time(schedule, check_time) ==
    LET hit == SelectSeq(schedule.train_slots,
                         LAMBDA slot : slot.start_time <= check_time
                                       /\ check_time <= slot.end_time)
    IN  [i \in 1..Len(hit) |-> hit[i].train_id]

\* _generate_optimized_schedule: a Schedule per section, the slots of every
\* train's route walk appended in order; KeyError when a route section has
\* no Schedule
_generate_optimized_schedule(h, trains, secs) ==
    LET ids == {secs[i].section_id : i \in 1..Len(secs)}
        all == WalkTrains(h, trains, 1)
    IN  IF \E i \in 1..Len(all) : all[i].section_id \notin ids
        THEN [error |-> "KeyError", schedules |-> <<>>]
        ELSE [error |-> "none",
              schedules |->
                [sid \in ids |->
                    LET mine == SelectSeq(all, LAMBDA e : e.section_id = sid)
                    IN  [section_id |-> sid,
                         train_slots |-> [i \in 1..Len(mine) |->
                                             add_train_slot(h, mine[i])],
                         optimized |-> TRUE]]]

\* round(num / den, digits) for den > 0, as the integer round(10^digits * num / den):
\* to the nearest integer, halves to the even one
RoundDiv(num, den) ==
    LET q == num \div den
        r == num % den
    IN  IF 2 * r < den THEN q
        ELSE IF 2 * r > den THEN q + 1
        ELSE IF q % 2 = 0 THEN q ELSE q + 1

\* time_span of _calculate_metrics, in minutes (original_trains not empty)
time_span(h, original_trains) ==
    SetMax({get_actual_departure(h.objs[r]) : r \in Range(original_trains)})
    - SetMin({get_actual_arrival(h.objs[r]) : r \in Range(original_trains)})

\* throughput_trains_per_hour, in hundredths of a train per hour:
\* round(len / (span_seconds / 3600), 2)
throughput(h, original_trains) ==
    LET span == time_span(h, original_trains)
        n == Len(original_trains)
    IN  IF span > 0 THEN RoundDiv(n * 6000, span)
        ELSE 0 - RoundDiv(n * 6000, 0 - span)

\* throughput_error without the guard on an empty list: max() of an empty
\* sequence raises
throughput_error_unguarded(h, original_trains) ==
    IF original_trains = <<>> THEN "ValueError"
    ELSE IF time_span(h, original_trains) = 0 THEN "ZeroDivisionError"
    ELSE "none"

\* the exception the throughput computation raises: none for an empty list
\* (throughput = 0), the division by a time_span of zero otherwise
throughput_error(h, original_trains) ==
    IF original_trains # <<>> /\ time_span(h, original_trains) = 0
    THEN "ZeroDivisionError"
    ELSE "none"

\* _calculate_metrics: the metrics record, or the exception raised
_calculate_metrics(h, original_trains, optimized_trains, secs) ==
    LET delays(l) == [i \in 1..Len(l) |-> h.objs[l[i]].current_delay_minutes]
        total_original_delay == SumSeq(delays(original_trains))
        total_optimized_delay == SumSeq(delays(optimized_trains))
        original == detect_conflicts(h, original_trains, secs)
        optimized == detect_conflicts(h, optimized_trains, secs)
        original_conflicts == Len(original.conflicts)
        optimized_conflicts == Len(optimized.conflicts)
        on_time_trains ==
            Cardinality({i \in 1..Len(optimized_trains) :
                            h.objs[optimized_trains[i]].current_delay_minutes <= 5})
    IN  IF original.error # "none" \/ optimized.error # "none"
        THEN [error |-> "KeyError"]
        ELSE IF throughput_error(h, original_trains) # "none"
        THEN [error |-> throughput_error(h, original_trains)]
        ELSE
        [error |-> "none",
         total_trains |-> Len(original_trains),
         original_conflicts |-> original_conflicts,
         optimized_conflicts |-> optimized_conflicts,
         conflicts_reduced |-> original_conflicts - optimized_conflicts,
         original_total_delay |-> total_original_delay,
         optimized_total_delay |-> total_optimized_delay,
         additional_delay_introduced |-> total_optimized_delay - total_original_delay,
         \* a quotient, kept as numerator and denominator
         average_delay_per_train |->
             IF optimized_trains # <<>>
             THEN [num |-> total_optimized_delay, den |-> Len(optimized_trains)]
             ELSE [num |-> 0, den |-> 1],
         \* in hundredths
         throughput_trains_per_hour |->
             IF original_trains # <<>> THEN throughput(h, original_trains) ELSE 0,
         \* in tenths of a percent
         punctuality_percentage |->
             IF optimized_trains # <<>>
             THEN RoundDiv(on_time_trains * 1000, Len(optimized_trains))
             ELSE 0,
         \* in tenths of a percent
         optimization_effectiveness |->
             LET d == original_conflicts - optimized_conflicts
                 m == Max(original_conflicts, 1)
             IN  IF d >= 0 THEN RoundDiv(d * 1000, m)
                 ELSE 0 - RoundDiv((0 - d) * 1000, m)]

\* working_copy without the deepcopy: the caller's list itself
working_copy_aliased(h, l) == [heap |-> h, ref |-> l]

\* working_trains = copy.deepcopy(trains)
working_copy(h, l) == deepcopy_list(h, l)

\* the value of a singleton set: binds the result of one call to a name
Result(S) == CHOOSE v \in S : TRUE

\* the tail of optimize_schedule, from the schedule generation to the return
optimize_result(h2, l, optimized_trains, secs) ==
    Result({ IF schedule.error # "none"
             THEN [error |-> schedule.error, heap |-> h2]
             ELSE Result({ IF metrics.error # "none"
                           THEN [error |-> metrics.error, heap |-> h2]
                           ELSE Result({ IF remaining.error # "none"
                                         THEN [error |-> remaining.error, heap |-> h2]
                                         ELSE [error |-> "none",
                                               heap |-> h2,
                                               optimized_trains |-> optimized_trains,
                                               schedule |-> schedule.schedules,
                                               metrics |-> metrics,
                                               conflicts_remaining |-> remaining.conflicts] :
                                   remaining \in {detect_conflicts(h2, optimized_trains, secs)} }) :
                     metrics \in {_calculate_metrics(h2, h2.lists[l], optimized_trains, secs)} }) :
        schedule \in {_generate_optimized_schedule(h2, optimized_trains, secs)} })

\* working_trains.sort(key=...) then _apply_greedy_optimization
sort_and_optimize(h0, l, working_trains, secs) ==
    Result({ Result({ IF greedy.error # "none"
                      THEN [error |-> greedy.error, heap |-> greedy.heap]
                      ELSE optimize_result(greedy.heap, l, greedy.optimized_trains, secs) :
                greedy \in {_apply_greedy_optimization(h1, h1.lists[working_trains], secs)} }) :
        h1 \in {[h0 EXCEPT !.lists[working_trains] =
                     SortTrains(h0, h0.lists[working_trains])]} })

\* optimize_schedule(trains, sections), trains being list l of the heap:
\* the heap at return and the returned dict, or the exception raised
optimize_schedule(h, l, secs) ==
    Result({ sort_and_optimize(copy.heap, l, copy.ref, secs) :
        copy \in {working_copy(h, l)} })

----------------------------------------------------------------------------
(* What-if analyzer (src/optimizer.py).                                    *)

\* the first train of list l whose train_id is train_id, 0 when there is none
\* (the loop with break of both analyses)
first_with_id(h, l, train_id) ==
    LET hits == {i \in 1..Len(h.lists[l]) : h.objs[h.lists[l][i]].train_id = train_id}
    IN  IF hits = {} THEN 0 ELSE h.lists[l][SetMin(hits)]

\* the report both analyses build from the two optimization results
impact_report(original_result, scenario_result) ==
    [error |-> "none",
     original_metrics |-> original_result.metrics,
     scenario_metrics |-> scenario_result.metrics,
     impact |->
        [conflicts |-> scenario_result.metrics.optimized_conflicts
                       - original_result.metrics.optimized_conflicts,
         delay |-> scenario_result.metrics.optimized_total_delay
                   - original_result.metrics.optimized_total_delay,
         punctuality |-> scenario_result.metrics.punctuality_percentage
                         - original_result.metrics.punctuality_percentage]]

\* scenario_trains = copy.deepcopy(trains)
scenario_copy(h, l) == deepcopy_list(h, l)

\* the two optimizations both analyses run, on the original list l and on
\* the modified copy, and the report; r is the modified train (0: none found)
\* and needs_original tells whether the report reads the found train's
\* original value (original_priority.name)
compare_optimizations(h1, l, scenario_trains, secs, r, needs_original) ==
    Result({ IF original_result.error # "none"
             THEN [heap |-> original_result.heap, optimizations |-> 1,
                   report |-> [error |-> original_result.error]]
             ELSE Result({ IF scenario_result.error # "none"
                           THEN [heap |-> scenario_result.heap, optimizations |-> 2,
                                 report |-> [error |-> scenario_result.error]]
                           \* original_priority is still None:
                           \* original_priority.name raises
                           ELSE IF needs_original /\ r = 0
                           THEN [heap |-> scenario_result.heap, optimizations |-> 2,
                                 report |-> [error |-> "AttributeError"]]
                           ELSE [heap |-> scenario_result.heap, optimizations |-> 2,
                                 report |-> impact_report(original_result,
                                                          scenario_result)] :
                     scenario_result \in
                         {optimize_schedule(original_result.heap, scenario_trains, secs)} }) :
        original_result \in {optimize_schedule(h1, l, secs)} })

analyze_delay_scenario(h, l, secs, train_id, additional_delay_minutes) ==
    Result({ LET scenario_trains == copy.ref
                 r == first_with_id(copy.heap, scenario_trains, train_id)
                 h1 == IF r = 0 THEN copy.heap
                       ELSE [copy.heap EXCEPT !.objs[r].current_delay_minutes =
                                 @ + additional_delay_minutes]
             IN  compare_optimizations(h1, l, scenario_trains, secs, r, FALSE) :
        copy \in {scenario_copy(h, l)} })

analyze_priority_change(h, l, secs, train_id, new_priority) ==
    Result({ LET scenario_trains == copy.ref
                 r == first_with_id(copy.heap, scenario_trains, train_id)
                 h1 == IF r = 0 THEN copy.heap
                       ELSE [copy.heap EXCEPT !.objs[r].priority = new_priority]
             IN  compare_optimizations(h1, l, scenario_trains, secs, r, TRUE) :
        copy \in {scenario_copy(h, l)} })

----------------------------------------------------------------------------
(* Conflict resolver and summary (src/conflict_detector.py).               *)

\* _suggest_delay_resolution with the priority comparison reversed
_suggest_delay_resolution_reversed(h, conflict) ==
    LET train1 == h.objs[conflict.train1]
        train2 == h.objs[conflict.train2]
        lower_priority_train == IF train1.priority > train2.priority THEN train2 ELSE train1
        higher_priority_train == IF lower_priority_train = train2 THEN train1 ELSE train2
    IN  <<[kind |-> "delay",
           train |-> lower_priority_train.train_number,
           minutes |-> duration_minutes(conflict) + 5,
           precedence |-> higher_priority_train.train_number]>>

\* the text of each suggestion, as the values formatted into it
_suggest_delay_resolution(h, conflict) ==
    LET train1 == h.objs[conflict.train1]
        train2 == h.objs[conflict.train2]
        lower_is_2 == train1.priority < train2.priority
        lower_priority_train == IF lower_is_2 THEN train2 ELSE train1
        \* dataclass equality: field by field
        higher_priority_train == IF lower_priority_train = train2 THEN train1 ELSE train2
    IN  <<[kind |-> "delay",
           train |-> lower_priority_train.train_number,
           minutes |-> duration_minutes(conflict) + 5,
           precedence |-> higher_priority_train.train_number]>>

_suggest_route_resolution(conflict) ==
    <<[kind |-> "reroute", section_id |-> conflict.section_id]>>

_suggest_speed_resolution(conflict) ==
    <<[kind |-> "speed", section_id |-> conflict.section_id]>>

\* the suggestions list built for one conflict
suggestions_for(h, conflict) ==
    IF conflict.severity >= 4
    THEN _suggest_delay_resolution(h, conflict) \o _suggest_route_resolution(conflict)
    ELSE _suggest_speed_resolution(conflict) \o _suggest_delay_resolution(h, conflict)

\* suggest_resolutions: conflict_id -> suggestions, a later conflict with the
\* same id overwriting an earlier one
suggest_resolutions(h, conflicts) ==
    [id \in {conflicts[i].conflict_id : i \in 1..Len(conflicts)} |->
        suggestions_for(h, conflicts[SetMax({i \in 1..Len(conflicts) :
                                                conflicts[i].conflict_id = id})])]

\* get_conflict_summary: the dict returned, its keys being the record's fields
get_conflict_summary(h, conflicts) ==
    IF conflicts = <<>>
    THEN [total_conflicts |-> 0,
          severity_breakdown |-> <<>>,
          sections_affected |-> {},
          trains_affected |-> {}]
    ELSE [total_conflicts |-> Len(conflicts),
          severity_breakdown |->
              [sev \in {conflicts[i].severity : i \in 1..Len(conflicts)} |->
                  Cardinality({i \in 1..Len(conflicts) : conflicts[i].severity = sev})],
          sections_affected |-> {conflicts[i].section_id : i \in 1..Len(conflicts)},
          trains_affected |->
              {h.objs[conflicts[i].train1].train_number : i \in 1..Len(conflicts)}
              \cup {h.objs[conflicts[i].train2].train_number : i \in 1..Len(conflicts)},
          critical_conflicts |->
              Cardinality({i \in 1..Len(conflicts) : conflicts[i].severity >= 4})]

----------------------------------------------------------------------------
(* The state machine: the inputs are drawn at Init, the engine operations  *)
(* are called on them as the handlers of src/app.py call them.             *)

TrainIds == <<"T1", "T2", "T3", "T4">>

\* the train lists of length n a caller can construct from the choices;
\* scheduled_departure is 30 minutes after scheduled_arrival
TrainLists(n, choices) ==
    {[i \in 1..n |-> Train(TrainIds[i], c[i][1], c[i][2], c[i][3], c[i][3] + 30,
                           c[i][4], c[i][5])] :
        c \in [1..n -> choices]}

\* the caller's list as a call left it
CallerTrains(h) == [i \in 1..Len(h.lists[1]) |-> h.objs[h.lists[1][i]]]

\* the state before any call: sections and trains drawn from the given
\* sets, trains of a length up to max
InitWith(secs, choices, lengths) ==
    /\ sections \in secs
    /\ \E n \in lengths : current_trains \in TrainLists(n, choices)
    /\ op = "none"
    /\ args = [trains |-> current_trains]
    /\ heap = Load(current_trains)
    /\ ret = [error |-> "none"]

Init == InitWith({SampleSections}, FleetChoices, 0..MaxTrains)

InitPair == InitWith({SampleSections}, PairChoices, {2})

InitSeverity ==
    InitWith({<<TrackSection("S1", type, 1)>> : type \in SectionTypes},
             SeverityChoices, {2})

InitEngine == InitWith({SampleSections}, FleetChoices, 0..MaxCallTrains)

\* conflict_detector.detect_conflicts(current_trains, sections)
Detect ==
    /\ op = "none"
    /\ \E h \in {Load(current_trains)} :
           /\ heap' = h
           /\ ret' = detect_conflicts(h, h.lists[1], sections)
           /\ current_trains' = CallerTrains(h)
    /\ op' = "detect"
    /\ args' = [trains |-> current_trains]
    /\ UNCHANGED sections

\* optimizer.optimize_schedule(current_trains, sections)
Optimize ==
    /\ op = "none"
    /\ \E r \in {optimize_schedule(Load(current_trains), 1, sections)} :
           /\ heap' = r.heap
           /\ ret' = [f \in DOMAIN r \ {"heap"} |-> r[f]]
           /\ current_trains' = CallerTrains(r.heap)
    /\ op' = "optimize"
    /\ args' = [trains |-> current_trains]
    /\ UNCHANGED sections

\* conflict_resolver.suggest_resolutions(conflicts), on the conflicts a
\* detect_conflicts call returned (the /conflicts handler)
Suggest ==
    /\ op = "detect"
    /\ ret.error = "none"
    /\ ret' = [error |-> "none",
               resolutions |-> suggest_resolutions(heap, ret.conflicts),
               conflicts |-> ret.conflicts]
    /\ op' = "suggest"
    /\ args' = [trains |-> args.trains, conflicts |-> ret.conflicts]
    /\ current_trains' = CallerTrains(heap)
    /\ UNCHANGED <<sections, heap>>

\* the train ids, delays and priorities the what-if forms are submitted with
TrainIdArgs == {"T1", "T2", "T9"}

DelayArgs == {0, 10}

PriorityArgs == {1, 4}

\* what_if_analyzer.analyze_delay_scenario(current_trains, sections, train_id, delay)
AnalyzeDelay ==
    /\ op = "none"
    /\ \E train_id \in TrainIdArgs, delay_minutes \in DelayArgs :
        /\ \E r \in {analyze_delay_scenario(Load(current_trains), 1, sections,
                                            train_id, delay_minutes)} :
               /\ heap' = r.heap
               /\ ret' = [report |-> r.report, error |-> r.report.error,
                          optimizations |-> r.optimizations]
               /\ current_trains' = CallerTrains(r.heap)
        /\ args' = [trains |-> current_trains, train_id |-> train_id,
                    delay_minutes |-> delay_minutes]
    /\ op' = "analyze_delay"
    /\ UNCHANGED sections

\* what_if_analyzer.analyze_priority_change(current_trains, sections, train_id, priority)
AnalyzePriority ==
    /\ op = "none"
    /\ \E train_id \in TrainIdArgs, new_priority \in PriorityArgs :
        /\ \E r \in {analyze_priority_change(Load(current_trains), 1, sections,
                                             train_id, new_priority)} :
               /\ heap' = r.heap
               /\ ret' = [report |-> r.report, error |-> r.report.error,
                          optimizations |-> r.optimizations]
               /\ current_trains' = CallerTrains(r.heap)
        /\ args' = [trains |-> current_trains, train_id |-> train_id,
                    new_priority |-> new_priority]
    /\ op' = "analyze_priority"
    /\ UNCHANGED sections

\* conflict_detector.get_conflict_summary(conflicts), on the conflicts a
\* detect_conflicts call returned (the /conflicts handler)
Summarize ==
    /\ op = "detect"
    /\ ret.error = "none"
    /\ ret' = [error |-> "none",
               summary |-> get_conflict_summary(heap, ret.conflicts),
               conflicts |-> ret.conflicts]
    /\ op' = "summarize"
    /\ args' = [trains |-> args.trains, conflicts |-> ret.conflicts]
    /\ current_trains' = CallerTrains(heap)
    /\ UNCHANGED <<sections, heap>>

\* the times a schedule is queried at: the ends of every slot and the
\* minutes next to them
CheckTimes(schedules) ==
    UNION {UNION {{schedules[sid].train_slots[i].start_time + d : d \in {-1, 0, 1}}
                  \cup {schedules[sid].train_slots[i].end_time + d : d \in {-1, 0, 1}} :
                     i \in 1..Len(schedules[sid].train_slots)} :
              sid \in DOMAIN schedules}

\* schedule[section_id].get_occupancy_at_time(check_time), on a schedule an
\* optimize_schedule call returned
Occupancy ==
    /\ op = "optimize"
    /\ ret.error = "none"
    /\ \E section_id \in DOMAIN ret.schedule, check_time \in CheckTimes(ret.schedule) :
           /\ ret' = [error |-> "none",
                      occupying_trains |->
                          get_occupancy_at_time(ret.schedule[section_id], check_time),
                      schedule |-> ret.schedule]
           /\ args' = [trains |-> args.trains, section_id |-> section_id,
                       check_time |-> check_time]
    /\ op' = "occupancy"
    /\ current_trains' = CallerTrains(heap)
    /\ UNCHANGED <<sections, heap>>

\* sections without S2: a route through S2 names a section that is absent
\* (priority, route, scheduled arrival, delay, section times)
UnknownChoices ==
    {1, 4} \X {<<"S1">>, <<"S2", "S1">>, <<"S1", "S2">>} \X {0, 5} \X {0} \X {<<>>}

InitUnknown ==
    InitWith({<<TrackSection("S1", "JUNCTION", 1)>>}, UnknownChoices, 0..MaxCallTrains)

\* span specification: (priority, route, scheduled arrival, delay, section times)
SpanChoices ==
    {1, 4} \X {<<"S1">>, <<"S2", "S1">>} \X {0, 5} \X {0} \X {<<>>}

\* the trains with scheduled_departure dwell[i] minutes after scheduled_arrival
WithDwell(trains, dwell) ==
    [i \in 1..Len(trains) |->
        [trains[i] EXCEPT !.scheduled_departure = trains[i].scheduled_arrival + dwell[i]]]

\* trains that leave when they arrive or 30 minutes later: the time span of
\* a list can be zero
InitSpan ==
    /\ sections = SampleSections
    /\ \E n \in 0..MaxCallTrains :
           \E base \in TrainLists(n, SpanChoices), dwell \in [1..n -> {0, 30}] :
               current_trains = WithDwell(base, dwell)
    /\ op = "none"
    /\ args = [trains |-> current_trains]
    /\ heap = Load(current_trains)
    /\ ret = [error |-> "none"]

Next == Detect \/ Optimize

\* the delay beyond which the /optimize handler is not called again
MaxDelay == 120

\* the /optimize handler: optimize_schedule on the global current_trains,
\* which the optimized trains then replace; an exception leaves it as it was.
\* op tells the first call from the calls on an already optimized list
OptimizeEndpoint ==
    /\ op \in {"none", "optimize_endpoint", "reoptimize"}
    /\ \A i \in 1..Len(current_trains) : current_trains[i].current_delay_minutes <= MaxDelay
    /\ \E r \in {optimize_schedule(Load(current_trains), 1, sections)} :
           /\ heap' = r.heap
           /\ ret' = [f \in DOMAIN r \ {"heap"} |-> r[f]]
           /\ current_trains' =
                  IF r.error = "none"
                  THEN [i \in 1..Len(r.optimized_trains) |-> r.heap.objs[r.optimized_trains[i]]]
                  ELSE current_trains
    /\ op' = IF op = "none" THEN "optimize_endpoint" ELSE "reoptimize"
    /\ args' = [trains |-> current_trains]
    /\ UNCHANGED sections

NextEndpoint == OptimizeEndpoint

\* objects a caller can construct although they describe no railway: a
\* section of negative capacity, a train with no route, a negative delay
MalformedChoices == {1, 4} \X {<<>>, <<"S1">>} \X {0, 5} \X {-5, 0} \X {<<>>}

InitMalformed == InitWith({<<TrackSection("S1", "JUNCTION", capacity)>> : capacity \in {-1, 1}}, MalformedChoices, 0..MaxCallTrains)

\* three trains that follow one another through the junction, each entering
\* as the one before leaves
FollowerChoices == {1, 2} \X {<<"S1">>} \X {0, 10, 20} \X {0} \X {<<>>}

InitFollowers == InitWith({SampleSections}, FollowerChoices, {3})

NextSpan == Optimize \/ AnalyzeDelay

\* fleets for the resolver: priorities on both sides of severity 4, and two
\* different priorities that still give a mild conflict
SuggestChoices == {1, 3, 4} \X {<<"S1">>, <<"S2", "S1">>} \X {0, 5} \X {0} \X {<<>>}

InitSuggest == InitWith({SampleSections}, SuggestChoices, 0..MaxCallTrains)

NextSuggest == Detect \/ Suggest

NextEngine ==
    \/ Detect
    \/ Suggest
    \/ Summarize
    \/ Optimize
    \/ Occupancy
    \/ AnalyzeDelay
    \/ AnalyzePriority

Spec == Init /\ [][Next]_vars

SpecPair == InitPair /\ [][Next]_vars

SpecSeverity == InitSeverity /\ [][Next]_vars

SpecEngine == InitEngine /\ [][NextEngine]_vars

SpecUnknown == InitUnknown /\ [][Next]_vars

SpecSpan == InitSpan /\ [][NextSpan]_vars

SpecMalformed == InitMalformed /\ [][Next]_vars

SpecFollowers == InitFollowers /\ [][Next]_vars

SpecEndpoint == InitPair /\ [][NextEndpoint]_vars

SpecSuggest == InitSuggest /\ [][NextSuggest]_vars

----------------------------------------------------------------------------
(* Properties. The occupancies the properties speak of are computed here   *)
(* from the train records alone, apart from the detector's timeline.       *)

\* the positions of train t's route that are section sid
Visits(t, sid) == {k \in 1..Len(t.route) : t.route[k] = sid}

\* the window [RouteStart, RouteEnd) train t occupies the k-th section of
\* its route for
RouteStart(t, k) ==
    get_actual_arrival(t) + SumSeq([m \in 1..(k - 1) |-> section_time(t, t.route[m])])

RouteEnd(t, k) == RouteStart(t, k) + section_time(t, t.route[k])

\* the windows of train t in section sid, as <<start, end>>
Windows(t, sid) == {<<RouteStart(t, k), RouteEnd(t, k)>> : k \in Visits(t, sid)}

\* the ids of the two trains of a conflict of the current heap
ConflictIds(c) == {heap.objs[c.train1].train_id, heap.objs[c.train2].train_id}

\* the positions in the conflict list cs of the conflicts of trains a and b
\* in section sid
ConflictsOf(cs, a, b, sid) ==
    {k \in 1..Len(cs) : cs[k].section_id = sid /\ ConflictIds(cs[k]) = {a, b}}

\* the trains of optimized_trains with the id of train t
OptimizedOf(t) ==
    {heap.objs[ret.optimized_trains[k]] : k \in
        {k \in 1..Len(ret.optimized_trains) :
            heap.objs[ret.optimized_trains[k]].train_id = t.train_id}}

Detected == op = "detect" /\ ret.error = "none"

Optimized == op = "optimize" /\ ret.error = "none"

\* sections of capacity 1
SingleCapacity == {sections[s].section_id : s \in
                      {s \in 1..Len(sections) : sections[s].capacity = 1}}

\* trains A (priority 1) and B (priority 4) of the input visit section sid
\* once each and their windows there overlap: the conflict a delay of B
\* alone removes
PrecedenceCase(A, B, sid) ==
    /\ A.priority = 1
    /\ B.priority = 4
    /\ sid \in SingleCapacity
    /\ Cardinality(Visits(A, sid)) = 1
    /\ Cardinality(Visits(B, sid)) = 1
    /\ \E wa \in Windows(A, sid), wb \in Windows(B, sid) :
           Max(wa[1], wb[1]) < Min(wa[2], wb[2])

\* C1: when a priority-1 train A and a priority-4 train B conflict in a
\* capacity-1 section, after optimize_schedule B's occupancy of the section
\* starts no earlier than A's occupancy end plus the safety margin, and A's
\* current_delay_minutes is unchanged.
PrecedenceRespected ==
    Optimized =>
        \A i, j \in 1..Len(args.trains), sid \in SectionIds :
            PrecedenceCase(args.trains[i], args.trains[j], sid) =>
                \A A2 \in OptimizedOf(args.trains[i]), B2 \in OptimizedOf(args.trains[j]) :
                    /\ A2.current_delay_minutes = args.trains[i].current_delay_minutes
                    /\ \A wa \in Windows(A2, sid), wb \in Windows(B2, sid) :
                           wb[1] >= wa[2] + safety_margin_minutes

\* the two-train scenario: A (HIGH) occupies S1 for [t0, t0 + 20), B (LOW)
\* for [t0 + 10, t0 + 30), S1 being a section of capacity 1
ScenarioTrains(A, B, t0) ==
    /\ A.priority = 2 /\ A.route = <<"S1">>
    /\ Windows(A, "S1") = {<<t0, t0 + 20>>}
    /\ B.priority = 4 /\ B.route = <<"S1">>
    /\ Windows(B, "S1") = {<<t0 + 10, t0 + 30>>}
    /\ "S1" \in SingleCapacity

\* C2: in the two-train scenario detect_conflicts reports exactly one
\* conflict, between A and B; optimize_schedule leaves A's delay unchanged,
\* raises B's delay so that B enters the section at t0 + 25 or later, and
\* returns an empty conflicts_remaining.
TwoTrainScenario ==
    \A i, j \in 1..Len(args.trains) :
        LET A == args.trains[i]
            B == args.trains[j]
            t0 == get_actual_arrival(A)
        IN  Len(args.trains) = 2 /\ ScenarioTrains(A, B, t0) =>
                /\ op = "detect" =>
                       /\ ret.error = "none"
                       /\ Len(ret.conflicts) = 1
                       /\ ConflictIds(ret.conflicts[1]) = {A.train_id, B.train_id}
                /\ op = "optimize" =>
                       /\ ret.error = "none"
                       /\ Len(ret.optimized_trains) = 2
                       /\ \A A2 \in OptimizedOf(A) :
                              A2.current_delay_minutes = A.current_delay_minutes
                       /\ \A B2 \in OptimizedOf(B) :
                              /\ B2.current_delay_minutes >= B.current_delay_minutes
                              /\ \A wb \in Windows(B2, "S1") : wb[1] >= t0 + 25
                       /\ ret.conflicts_remaining = <<>>

\* the scenario was optimized and B was delayed
TwoTrainScenarioReached ==
    /\ op = "optimize"
    /\ \E i, j \in 1..Len(args.trains) :
           /\ ScenarioTrains(args.trains[i], args.trains[j],
                             get_actual_arrival(args.trains[i]))
           /\ \E B2 \in OptimizedOf(args.trains[j]) :
                  B2.current_delay_minutes > args.trains[j].current_delay_minutes

\* C3: every input train has a train of the same train_id in
\* optimized_trains, and its current_delay_minutes is no smaller than the
\* input train's.
DelayMonotonicity ==
    Optimized =>
        \A i \in 1..Len(args.trains) :
            /\ OptimizedOf(args.trains[i]) # {}
            /\ \A t \in OptimizedOf(args.trains[i]) :
                   t.current_delay_minutes >= args.trains[i].current_delay_minutes

\* an already delayed train was delayed further by the optimization
DelayRaised ==
    /\ Optimized
    /\ \E i \in 1..Len(args.trains) :
           /\ args.trains[i].current_delay_minutes > 0
           /\ \E t \in OptimizedOf(args.trains[i]) :
                  t.current_delay_minutes > args.trains[i].current_delay_minutes

\* C4: after a call of detect_conflicts, suggest_resolutions,
\* optimize_schedule, analyze_delay_scenario or analyze_priority_change the
\* caller's list holds the same trains, field for field and in the same
\* order, as before the call, the conflicts handed to suggest_resolutions
\* are unchanged, and no train of optimized_trains is an object of the
\* caller's list.
InputsNotMutated ==
    op # "none" =>
        /\ CallerTrains(heap) = args.trains
        /\ current_trains = args.trains
        /\ heap.lists[1] = [i \in 1..Len(args.trains) |-> i]
        /\ op = "suggest" => ret.conflicts = args.conflicts
        /\ Optimized =>
               \A k \in 1..Len(ret.optimized_trains) :
                   ret.optimized_trains[k] \notin Range(heap.lists[1])

\* an optimization delayed a train of a list that was not in priority order
\* (so the working list was reordered and a working train was written)
CopyWasWritten ==
    /\ Optimized
    /\ Len(args.trains) = 2
    /\ args.trains[1].priority > args.trains[2].priority
    /\ \E k \in 1..Len(ret.optimized_trains) :
           \E i \in 1..Len(args.trains) :
               /\ heap.objs[ret.optimized_trains[k]].train_id = args.trains[i].train_id
               /\ heap.objs[ret.optimized_trains[k]] # args.trains[i]

\* some windows of trains A and B in section sid overlap within the safety
\* margin, and without it
MarginOverlap(A, B, sid) ==
    \E wa \in Windows(A, sid), wb \in Windows(B, sid) :
        Max(wa[1], wb[1]) < Min(wa[2], wb[2]) + safety_margin_minutes

ActualOverlap(A, B, sid) ==
    \E wa \in Windows(A, sid), wb \in Windows(B, sid) :
        Max(wa[1], wb[1]) < Min(wa[2], wb[2])

\* what a conflict list of heap h reports for section sid: the two trains as
\* an unordered pair of ids, the window and the severity
Reported(h, cs, sid) ==
    {<<{h.objs[cs[k].train1].train_id, h.objs[cs[k].train2].train_id},
       cs[k].conflict_start_time, cs[k].conflict_end_time, cs[k].severity>> :
        k \in {k \in 1..Len(cs) : cs[k].section_id = sid}}

InSection(cs, sid) == {k \in 1..Len(cs) : cs[k].section_id = sid}

Reversed(s) == [i \in 1..Len(s) |-> s[Len(s) + 1 - i]]

\* detect_conflicts reports exactly one conflict for section sid, and what it
\* reports is what it reports for the two trains in the other order
OneConflictEitherOrder(sid) ==
    LET swapped == Load(Reversed(args.trains))
        other == detect_conflicts(swapped, swapped.lists[1], sections)
    IN  /\ Cardinality(InSection(ret.conflicts, sid)) = 1
        /\ other.error = "none"
        /\ Cardinality(InSection(other.conflicts, sid)) = 1
        /\ Reported(swapped, other.conflicts, sid) = Reported(heap, ret.conflicts, sid)

\* C5 (as stated): for two trains whose windows in a capacity-1 section
\* overlap within the safety margin, detect_conflicts returns exactly one
\* conflict for that section, in either order of the two trains.
OneConflictWithinMargin ==
    Detected /\ Len(args.trains) = 2 =>
        \A sid \in SingleCapacity :
            MarginOverlap(args.trains[1], args.trains[2], sid) =>
                OneConflictEitherOrder(sid)

\* C5 (amended): for two trains whose windows in a capacity-1 section
\* overlap (max(start_1, start_2) < min(end_1, end_2), without the margin),
\* detect_conflicts returns exactly one conflict for that section, and it
\* reports the same pair of trains, window and severity in either order of
\* the two trains.
OneConflictForOverlap ==
    Detected /\ Len(args.trains) = 2 =>
        \A sid \in SingleCapacity :
            ActualOverlap(args.trains[1], args.trains[2], sid) =>
                OneConflictEitherOrder(sid)

\* two trains entering a capacity-1 section at the same time were detected
\* (the order of the list decides which is train1)
SimultaneousPairDetected ==
    /\ Detected
    /\ Len(args.trains) = 2
    /\ \E sid \in SingleCapacity :
           /\ \E wa \in Windows(args.trains[1], sid), wb \in Windows(args.trains[2], sid) :
                  wa[1] = wb[1]
           /\ InSection(ret.conflicts, sid) # {}

\* the occupancy entries of section sid: <<i, k>> for the k-th section of
\* the route of the i-th input train
Entries(sid) ==
    UNION {{<<i, k>> : k \in Visits(args.trains[i], sid)} :
              i \in 1..Len(args.trains)}

EntryStart(e) == RouteStart(args.trains[e[1]], e[2])

EntryEnd(e) == RouteEnd(args.trains[e[1]], e[2])

\* the other entries of the section that overlap entry e within the margin
OverlappingOthers(e, sid) ==
    {f \in Entries(sid) \ {e} :
        Max(EntryStart(e), EntryStart(f))
            < Min(EntryEnd(e), EntryEnd(f)) + safety_margin_minutes}

\* entries e and f share a window that is not empty
WindowsMeet(e, f) ==
    Max(EntryStart(e), EntryStart(f)) < Min(EntryEnd(e), EntryEnd(f))

\* a conflict was emitted for entry e against entry f: conflict c names e's
\* train first and reports the window the two entries share
EmittedFor(c, e, f, sid) ==
    /\ c.section_id = sid
    /\ heap.objs[c.train1].train_id = args.trains[e[1]].train_id
    /\ heap.objs[c.train2].train_id = args.trains[f[1]].train_id
    /\ c.conflict_start_time = Max(EntryStart(e), EntryStart(f))
    /\ c.conflict_end_time = Min(EntryEnd(e), EntryEnd(f))

\* the rule of the capacity trigger, count(e, sid) being the number that is
\* compared with the capacity: the pairs of an entry at or over capacity are
\* reported, and every reported conflict was emitted for such an entry
CapacityRule(count(_, _)) ==
    Detected =>
        \A s \in 1..Len(sections) :
            LET sid == sections[s].section_id
            IN  /\ \A e \in Entries(sid) :
                       count(e, sid) >= sections[s].capacity =>
                           \A f \in OverlappingOthers(e, sid) :
                               WindowsMeet(e, f) =>
                                   ConflictsOf(ret.conflicts,
                                               args.trains[e[1]].train_id,
                                               args.trains[f[1]].train_id, sid) # {}
                /\ \A k \in InSection(ret.conflicts, sid) :
                       \E e \in Entries(sid) :
                           /\ count(e, sid) >= sections[s].capacity
                           /\ \E f \in OverlappingOthers(e, sid) :
                                  EmittedFor(ret.conflicts[k], e, f, sid)

CountWithItself(e, sid) == Cardinality(OverlappingOthers(e, sid)) + 1

CountOfOthers(e, sid) == Cardinality(OverlappingOthers(e, sid))

\* C6 (as stated): conflicts of an entry with its overlapping entries are
\* emitted whenever the number of margin-overlapping entries counted
\* including the entry itself reaches the capacity of the section, and none
\* is emitted for an entry whose count is below the capacity.
TriggerCountsItself == CapacityRule(CountWithItself)

\* C6 (amended): conflicts of an entry with its overlapping entries are
\* emitted whenever the number of other entries that overlap it within the
\* margin reaches the capacity of the section, and none is emitted for an
\* entry with fewer; two trains overlapping in a capacity-2 section give no
\* conflict, three give conflicts.
TriggerCountsOthers == CapacityRule(CountOfOthers)

\* three trains were together in the capacity-2 section and a conflict was
\* reported there
PlatformOverCapacity ==
    /\ Detected
    /\ \E k \in 1..Len(ret.conflicts) : ret.conflicts[k].section_id = "S2"
    /\ \E e \in Entries("S2") : CountOfOthers(e, "S2") = 2

\* C7: the list detect_conflicts returns holds at most one conflict for
\* every section and unordered pair of train ids.
NoDuplicateConflicts ==
    Detected =>
        \A k1, k2 \in 1..Len(ret.conflicts) :
            /\ ret.conflicts[k1].section_id = ret.conflicts[k2].section_id
            /\ ConflictIds(ret.conflicts[k1]) = ConflictIds(ret.conflicts[k2])
            => k1 = k2

\* a train that visits a section twice met another train there on both
\* visits, among three trains: several windows for one reported conflict
RepeatedMeetingDetected ==
    /\ Detected
    /\ Len(args.trains) = 3
    /\ \E sid \in SectionIds : \E k \in InSection(ret.conflicts, sid) :
           Cardinality({p \in Entries(sid) \X Entries(sid) :
                           /\ args.trains[p[1][1]].train_id
                                  = heap.objs[ret.conflicts[k].train1].train_id
                           /\ args.trains[p[2][1]].train_id
                                  = heap.objs[ret.conflicts[k].train2].train_id
                           /\ WindowsMeet(p[1], p[2])}) >= 2

\* C8: every conflict detect_conflicts returns reports the window from the
\* later start to the earlier end of two occupancies of its trains in its
\* section, which is not empty (the margin does not widen it), and two
\* trains whose occupancies meet only through the margin have no conflict.
ConflictWindowUnmargined ==
    Detected =>
        /\ \A k \in 1..Len(ret.conflicts) :
               LET c == ret.conflicts[k]
               IN  /\ c.conflict_start_time < c.conflict_end_time
                   /\ \E wa \in Windows(heap.objs[c.train1], c.section_id),
                         wb \in Windows(heap.objs[c.train2], c.section_id) :
                          /\ c.conflict_start_time = Max(wa[1], wb[1])
                          /\ c.conflict_end_time = Min(wa[2], wb[2])
        /\ \A i, j \in 1..Len(args.trains), sid \in SectionIds :
               i # j /\ ~ActualOverlap(args.trains[i], args.trains[j], sid) =>
                   ConflictsOf(ret.conflicts, args.trains[i].train_id,
                               args.trains[j].train_id, sid) = {}

\* a conflict was reported while two other trains, meeting only through the
\* margin in a capacity-1 section, got none
MarginOnlyPairSkipped ==
    /\ Detected
    /\ ret.conflicts # <<>>
    /\ \E i, j \in 1..Len(args.trains), sid \in SingleCapacity :
           /\ i # j
           /\ MarginOverlap(args.trains[i], args.trains[j], sid)
           /\ ~ActualOverlap(args.trains[i], args.trains[j], sid)
           /\ ConflictsOf(ret.conflicts, args.trains[i].train_id,
                          args.trains[j].train_id, sid) = {}

\* the type of section sid
TypeOf(sid) ==
    sections[CHOOSE s \in 1..Len(sections) : sections[s].section_id = sid].section_type

\* the longest time trains A and B are together in section sid
SharedMinutes(A, B, sid) ==
    SetMax({Min(wa[2], wb[2]) - Max(wa[1], wb[1]) :
               wa \in Windows(A, sid), wb \in Windows(B, sid)})

\* the terms of the severity before the clamp
SeverityTerms(A, B, minutes, type) ==
    2 + (IF A.priority = 1 \/ B.priority = 1 THEN 2
         ELSE IF A.priority = 2 \/ B.priority = 2 THEN 1 ELSE 0)
      + (IF minutes > 30 THEN 1 ELSE 0)
      + (IF minutes > 60 THEN 1 ELSE 0)
      + (IF type \in {"JUNCTION", "SINGLE_LINE"} THEN 1 ELSE 0)

\* C9: the severity of every reported conflict is min(5, 2 + 2 if either
\* train has priority 1, else 1 if either has priority 2 + 1 if the overlap
\* without margin lasts more than 30 minutes + 1 more if more than 60 + 1 if
\* the section is a junction or single line), an integer of 1..5.
SeverityAsSpecified ==
    Detected =>
        \A k \in 1..Len(ret.conflicts) :
            LET c == ret.conflicts[k]
                A == heap.objs[c.train1]
                B == heap.objs[c.train2]
            IN  /\ c.severity = Min(5, SeverityTerms(A, B, SharedMinutes(A, B, c.section_id),
                                                     TypeOf(c.section_id)))
                /\ c.severity \in 1..5

\* a conflict whose terms add up to more than 5 was reported
SeverityClamped ==
    /\ Detected
    /\ \E k \in 1..Len(ret.conflicts) :
           LET c == ret.conflicts[k]
               A == heap.objs[c.train1]
               B == heap.objs[c.train2]
           IN  SeverityTerms(A, B, SharedMinutes(A, B, c.section_id),
                             TypeOf(c.section_id)) > 5

\* the trains of the call, each occupying every section of its route for the
\* given number of minutes
Occupying(minutes) ==
    [i \in 1..Len(args.trains) |->
        [args.trains[i] EXCEPT !.estimated_section_times =
            [s \in DOMAIN @ |-> minutes]]]

\* the severities detect_conflicts reports for these trains with the
\* overlap lasting the given number of minutes
SeveritiesAt(minutes) ==
    LET h == Load(Occupying(minutes))
        cs == detect_conflicts(h, h.lists[1], sections).conflicts
    IN  {cs[k].severity : k \in 1..Len(cs)}

\* the overlap lengths one threshold above an overlap of the given length
NextBand(minutes) ==
    {m \in OccupancyMinutes :
        \/ minutes <= 30 /\ 30 < m /\ m <= 60
        \/ 30 < minutes /\ minutes <= 60 /\ 60 < m}

\* C10 (as stated): with priorities and section type fixed, an overlap of
\* more than 30 minutes has a severity at least 1 above that of an overlap
\* of at most 30, and one of more than 60 minutes at least 1 above that of
\* an overlap of 31 to 60; no severity exceeds 5.
SeverityStrictlyMonotone ==
    Detected =>
        \A k \in 1..Len(ret.conflicts) :
            LET c == ret.conflicts[k]
            IN  /\ c.severity <= 5
                /\ \A m \in NextBand(duration_minutes(c)) :
                       /\ SeveritiesAt(m) # {}
                       /\ \A sev \in SeveritiesAt(m) : sev >= c.severity + 1 /\ sev <= 5

\* C10 (amended): with priorities and section type fixed, crossing the 30
\* minute threshold, and crossing the 60 minute threshold, raises the
\* severity by exactly 1 unless it is already 5, in which case it stays 5;
\* the severity never decreases with the duration and never exceeds 5.
SeverityMonotoneToCap ==
    Detected =>
        \A k \in 1..Len(ret.conflicts) :
            LET c == ret.conflicts[k]
            IN  /\ c.severity <= 5
                /\ \A m \in NextBand(duration_minutes(c)) :
                       /\ SeveritiesAt(m) # {}
                       /\ \A sev \in SeveritiesAt(m) : sev = Min(5, c.severity + 1)

\* a conflict of at most 30 minutes was reported with severity 5 already
ShortConflictAtCap ==
    /\ Detected
    /\ \E k \in 1..Len(ret.conflicts) :
           /\ duration_minutes(ret.conflicts[k]) <= 30
           /\ ret.conflicts[k].severity = 5

\* the train ids of the trains of the call
InputIds == {args.trains[i].train_id : i \in 1..Len(args.trains)}

WhatIfCalled == op \in {"analyze_delay", "analyze_priority"}

\* C11: analyze_delay_scenario and analyze_priority_change called with a
\* train_id that no train of the list has raise an error before any
\* optimization is run, and return no report.
UnknownTrainFailsAtOnce ==
    WhatIfCalled /\ args.train_id \notin InputIds =>
        /\ ret.error # "none"
        /\ ret.optimizations = 0

\* the ids of the sections of the call
KnownSections == {sections[s].section_id : s \in 1..Len(sections)}

\* some route of the call names a section that is no section of the call
UnknownReference ==
    \E i \in 1..Len(args.trains) : Range(args.trains[i].route) \ KnownSections # {}

\* C12: when a route names a section id that the sections do not hold,
\* detect_conflicts and optimize_schedule raise (KeyError) and return no
\* result, wherever the train is in the list and the section in the route.
UnknownSectionFatal ==
    op \in {"detect", "optimize"} /\ UnknownReference =>
        /\ ret.error = "KeyError"
        /\ op = "detect" => ret.conflicts = <<>>
        /\ op = "optimize" => DOMAIN ret = {"error"}

\* optimize_schedule raised for a single train (none is placed against it)
\* whose route ends in the absent section
LoneTrainUnknownSection ==
    /\ op = "optimize"
    /\ Len(args.trains) = 1
    /\ args.trains[1].route = <<"S1", "S2">>
    /\ "S2" \notin KnownSections
    /\ ret.error = "KeyError"

\* the span of the trains of the call: latest effective departure minus
\* earliest effective arrival
InputSpan ==
    SetMax({get_actual_departure(args.trains[i]) : i \in 1..Len(args.trains)})
    - SetMin({get_actual_arrival(args.trains[i]) : i \in 1..Len(args.trains)})

\* C13: optimize_schedule on a list that is not empty and whose span is zero
\* raises no division error and returns metrics whose
\* throughput_trains_per_hour is 0.
ZeroSpanGuarded ==
    op = "optimize" /\ args.trains # <<>> /\ InputSpan = 0 =>
        /\ ret.error = "none"
        /\ ret.metrics.throughput_trains_per_hour = 0

\* C14: optimize_schedule([], sections) raises nothing and returns metrics
\* with total_trains, throughput_trains_per_hour, punctuality_percentage and
\* average_delay_per_train all 0, no optimized train and no remaining
\* conflict.
EmptyListOptimized ==
    op = "optimize" /\ args.trains = <<>> =>
        /\ ret.error = "none"
        /\ ret.metrics.total_trains = 0
        /\ ret.metrics.throughput_trains_per_hour = 0
        /\ ret.metrics.punctuality_percentage = 0
        /\ ret.metrics.average_delay_per_train.num = 0
        /\ ret.optimized_trains = <<>>
        /\ ret.conflicts_remaining = <<>>

\* the empty list was optimized
EmptyListReturned ==
    /\ op = "optimize"
    /\ args.trains = <<>>
    /\ "metrics" \in DOMAIN ret

\* C15: for an empty list and for a single train with any route, also one
\* that visits a section twice, detect_conflicts returns an empty list.
NoPeerNoConflict ==
    op = "detect" /\ Len(args.trains) < 2 =>
        /\ ret.error = "none"
        /\ ret.conflicts = <<>>

\* a single train visiting the capacity-1 section twice was examined: its
\* two occupancies meet within the margin
LoneTrainRevisits ==
    /\ op = "detect"
    /\ Len(args.trains) = 1
    /\ Cardinality(Visits(args.trains[1], "S1")) = 2
    /\ "S1" \in SingleCapacity
    /\ MarginOverlap(args.trains[1], args.trains[1], "S1")

\* C16: for every list of trains and every train_id in it,
\* analyze_delay_scenario with no additional delay returns a report whose
\* three deltas (conflicts, total delay, punctuality) are 0 and whose
\* original_metrics equal its scenario_metrics.
NoOpScenarioNeutral ==
    op = "analyze_delay" /\ args.delay_minutes = 0 /\ args.train_id \in InputIds =>
        /\ ret.error = "none"
        /\ ret.report.impact.conflicts = 0
        /\ ret.report.impact.delay = 0
        /\ ret.report.impact.punctuality = 0
        /\ ret.report.original_metrics = ret.report.scenario_metrics

\* C17: get_conflict_summary on an empty list returns a record with the
\* fields it has for a list that is not empty, all zero or empty: total 0,
\* empty severity breakdown, no section and no train affected and a count of
\* critical conflicts of 0; every summary holds the critical count.
EmptySummaryComplete ==
    op = "summarize" =>
        /\ "critical_conflicts" \in DOMAIN ret.summary
        /\ args.conflicts = <<>> =>
               /\ ret.summary.total_conflicts = 0
               /\ DOMAIN ret.summary.severity_breakdown = {}
               /\ ret.summary.sections_affected = {}
               /\ ret.summary.trains_affected = {}
               /\ ret.summary.critical_conflicts = 0

\* the train numbers a delay suggestion for conflict c may name: those of
\* its trains with the larger priority ordinal
WeakerTrains(c) ==
    LET pair == {heap.objs[c.train1], heap.objs[c.train2]}
    IN  {t.train_number : t \in {t \in pair : \A u \in pair : u.priority <= t.priority}}

\* s is the delay suggestion the claim describes for conflict c
DelaySuggestionFor(s, c) ==
    /\ s.kind = "delay"
    /\ s.train \in WeakerTrains(c)
    /\ s.minutes = (c.conflict_end_time - c.conflict_start_time) + 5

\* C18: suggest_resolutions maps the id of every conflict to exactly two
\* suggestions: delay then reroute when the severity is 4 or more, speed
\* adjustment then delay otherwise; the delay suggestion names the train of
\* the two with the larger priority ordinal and recommends the duration of
\* the conflict plus 5 minutes.
SuggestionsAsSpecified ==
    op = "suggest" =>
        /\ DOMAIN ret.resolutions
               = {args.conflicts[k].conflict_id : k \in 1..Len(args.conflicts)}
        /\ \A k \in 1..Len(args.conflicts) :
               LET c == args.conflicts[k]
                   suggestions == ret.resolutions[c.conflict_id]
               IN  /\ Len(suggestions) = 2
                   /\ IF c.severity >= 4
                      THEN /\ DelaySuggestionFor(suggestions[1], c)
                           /\ suggestions[2].kind = "reroute"
                      ELSE /\ suggestions[1].kind = "speed"
                           /\ DelaySuggestionFor(suggestions[2], c)

\* suggestions were made for a mild conflict whose first train is the
\* weaker of two trains of different priority
MildConflictSuggested ==
    /\ op = "suggest"
    /\ \E k \in 1..Len(args.conflicts) :
           /\ args.conflicts[k].severity < 4
           /\ heap.objs[args.conflicts[k].train1].priority
                  > heap.objs[args.conflicts[k].train2].priority

\* the slots of train train_id in the Schedule of section sid, in the order
\* they were added
SlotsOf(schedule, sid, train_id) ==
    SelectSeq(schedule[sid].train_slots, LAMBDA slot : slot.train_id = train_id)

\* the slot of route position k of train t
SlotAt(schedule, t, k) ==
    SlotsOf(schedule, t.route[k], t.train_id)[Cardinality({j \in 1..k : t.route[j] = t.route[k]})]

\* in the returned schedule the slot of every route position ends when the
\* slot of the next position starts
SlotsContiguous ==
    Optimized =>
        \A i \in 1..Len(ret.optimized_trains) :
            LET t == heap.objs[ret.optimized_trains[i]]
            IN  \A k \in 1..(Len(t.route) - 1) :
                    SlotAt(ret.schedule, t, k).end_time
                        = SlotAt(ret.schedule, t, k + 1).start_time

\* a train reported in the queried section at the queried instant is
\* reported by the Schedule of no other section at that instant
NoDoubleOccupancy ==
    op = "occupancy" =>
        \A train_id \in Range(ret.occupying_trains) :
            \A other \in DOMAIN ret.schedule \ {args.section_id} :
                train_id \notin Range(get_occupancy_at_time(ret.schedule[other], args.check_time))

\* C19: in the schedule optimize returns, for every train the slot of route
\* position k ends exactly when the slot of position k+1 starts, and at
\* every instant at most one section's Schedule reports the train as an
\* occupant.
OneSectionAtATime == SlotsContiguous /\ NoDoubleOccupancy

\* the slots of the Schedule the lookup was made on
QueriedSlots == ret.schedule[args.section_id].train_slots

\* C20: on every Schedule optimize generates, get_occupancy_at_time at a
\* time strictly inside a slot's [start, end] returns a list containing
\* that slot's train id, and at a time lying in no slot returns an empty
\* list.
OccupancyLookup ==
    op = "occupancy" =>
        /\ \A i \in 1..Len(QueriedSlots) :
               (QueriedSlots[i].start_time < args.check_time
                    /\ args.check_time < QueriedSlots[i].end_time)
                   => QueriedSlots[i].train_id \in Range(ret.occupying_trains)
        /\ (\A i \in 1..Len(QueriedSlots) :
                args.check_time < QueriedSlots[i].start_time
                    \/ QueriedSlots[i].end_time < args.check_time)
               => ret.occupying_trains = <<>>

\* a lookup strictly inside the slot of one train and after the slot of
\* another in the same Schedule
LookupInsideSlot ==
    /\ op = "occupancy"
    /\ \E i, j \in 1..Len(QueriedSlots) :
           /\ QueriedSlots[i].start_time < args.check_time
           /\ args.check_time < QueriedSlots[i].end_time
           /\ QueriedSlots[j].end_time < args.check_time

\* t is a train the claim calls well formed
WellFormedTrain(t) == t.route # <<>> /\ t.current_delay_minutes >= 0

\* C21: a TrackSection of negative capacity, a Train with an empty route
\* and a Train with a negative current_delay_minutes are rejected when they
\* are constructed, so detect and optimize never receive one.
MalformedRejected ==
    op \in {"detect", "optimize"} =>
        /\ \A s \in 1..Len(sections) : sections[s].capacity >= 0
        /\ \A i \in 1..Len(args.trains) : WellFormedTrain(args.trains[i])

\* the train of the input that the i-th optimized train is the copy of
InputOf(i) ==
    CHOOSE t \in Range(args.trains) :
        t.train_id = heap.objs[ret.optimized_trains[i]].train_id

\* the windows _optimize_single_train planned for the i-th train of the
\* optimized list, against the trains placed before it
PlannedWindows(i) ==
    PlannedWindowsFrom(heap, InputOf(i), SubSeq(ret.optimized_trains, 1, i - 1),
                       section_dict(sections), 1, get_actual_arrival(InputOf(i)), 0)

\* C22: for each train after the first, the window optimize tests against
\* the placed trains for the k-th section of its route starts at the
\* effective arrival plus the delay accumulated so far, counted once, plus
\* the traversal minutes of route sections 1..k-1, and ends that section's
\* traversal minutes later.
PlannedWindowIsOccupancy ==
    Optimized =>
        \A i \in 2..Len(ret.optimized_trains) :
            \A k \in 1..Len(PlannedWindows(i)) :
                LET t == InputOf(i)
                    w == PlannedWindows(i)[k]
                IN  /\ w.section_start_time
                           = get_actual_arrival(t) + w.total_delay_added
                             + SumSeq([m \in 1..(k - 1) |-> section_time(t, t.route[m])])
                    /\ w.section_end_time
                           = w.section_start_time + section_time(t, t.route[k])

\* the minutes optimize added to the i-th train of the optimized list
DelayAdded(i) ==
    heap.objs[ret.optimized_trains[i]].current_delay_minutes
        - InputOf(i).current_delay_minutes

\* the delays _calculate_required_delay asked for along the route of the
\* i-th train
RequiredDelays(i) == {PlannedWindows(i)[k].required_delay : k \in 1..Len(PlannedWindows(i))}

\* C23: the minutes optimize adds to a train's current_delay_minutes are
\* the maximum of the required delays over the sections of its route and
\* the stronger trains placed there, not their sum, added once after the
\* whole route has been evaluated.
DelayIsMaximumRequired ==
    Optimized =>
        \A i \in 2..Len(ret.optimized_trains) :
            DelayAdded(i) = SetMax({0} \cup RequiredDelays(i))

\* the positions in the optimized list of the trains strictly stronger than
\* the i-th
StrongerThan(i) ==
    {j \in 1..Len(ret.optimized_trains) :
        heap.objs[ret.optimized_trains[j]].priority < InputOf(i).priority}

\* trains t and u share a section of their routes
SharesSection(t, u) == Range(t.route) \cap Range(u.route) # {}

\* trains t and u are in one section at the same time, or within the safety
\* margin of each other
OccupancyOverlap(t, u) ==
    \E sid \in Range(t.route) \cap Range(u.route) :
        \E w1 \in Windows(t, sid), w2 \in Windows(u, sid) :
            /\ w1[1] < w2[2] + safety_margin_minutes
            /\ w2[1] < w1[2] + safety_margin_minutes

\* optimize raises a delay only of a train that shares a section with a
\* strictly stronger train
DelayedOnlyBehindStronger ==
    Optimized =>
        \A i \in 1..Len(ret.optimized_trains) :
            DelayAdded(i) > 0 =>
                \E j \in StrongerThan(i) :
                    SharesSection(InputOf(i), heap.objs[ret.optimized_trains[j]])

\* the first train in (priority, effective arrival) order and every train of
\* the strongest priority class keep their delay
StrongestKeepDelay ==
    Optimized =>
        \A i \in 1..Len(ret.optimized_trains) :
            (i = 1 \/ StrongerThan(i) = {}) => DelayAdded(i) = 0

\* a train that overlaps no strictly stronger train keeps its delay
NoOverlapKeepsDelay ==
    Optimized =>
        \A i \in 1..Len(ret.optimized_trains) :
            (\A j \in StrongerThan(i) :
                 ~OccupancyOverlap(InputOf(i), heap.objs[ret.optimized_trains[j]]))
                => DelayAdded(i) = 0

\* C24: optimize increases a train's delay only if a train with a strictly
\* smaller priority ordinal shares a section of its route; the first train
\* in (priority, effective arrival) order, every train of the strongest
\* priority class present and every train that overlaps only equal or
\* weaker trains keep their original current_delay_minutes.
OnlyWeakerDelayed ==
    DelayedOnlyBehindStronger /\ StrongestKeepDelay /\ NoOverlapKeepsDelay

\* C25: the metrics optimize returns satisfy optimized_conflicts <=
\* original_conflicts, so conflicts_reduced and optimization_effectiveness
\* are not negative, and optimized_conflicts is the length of the returned
\* conflicts_remaining.
NeverWorse ==
    Optimized =>
        /\ ret.metrics.optimized_conflicts <= ret.metrics.original_conflicts
        /\ ret.metrics.conflicts_reduced >= 0
        /\ ret.metrics.optimization_effectiveness >= 0
        /\ ret.metrics.optimized_conflicts = Len(ret.conflicts_remaining)

\* C26: whenever detect reports no conflict on the input trains
\* (original_conflicts = 0), optimize adds no delay to any train
\* (additional_delay_introduced = 0), whatever the capacity of the sections.
NoConflictNoDelay ==
    Optimized =>
        (ret.metrics.original_conflicts = 0
            => /\ ret.metrics.additional_delay_introduced = 0
               /\ \A i \in 1..Len(ret.optimized_trains) : DelayAdded(i) = 0)

\* C27: optimize run on the optimized_trains of a previous optimize call,
\* as the /optimize handler does when it is invoked again, adds no further
\* delay to any train: every train's delay stays at the value reached after
\* the first call.
ReoptimizeIsFixedPoint ==
    (op = "reoptimize" /\ ret.error = "none") =>
        \A i \in 1..Len(ret.optimized_trains) : DelayAdded(i) = 0

====
